---- MODULE Spec2Model ----
(***************************************************************************)
(* The SchoolCafe menu client (custom_components/schoolcafe/api.py) and    *)
(* the refresh cycle that the update coordinator (sensor.py) runs on it.   *)
(*                                                                         *)
(* One get_menu_for_date call is a small state machine: a request is       *)
(* issued (SendRequest), its response or transport exception arrives       *)
(* (Receive), and between two attempts the call sleeps (WakeUp ends the    *)
(* sleep).  get_menu_data runs one such call per date of its window and    *)
(* the coordinator stores what get_menu_data returns.                      *)
(*                                                                         *)
(* Around them runs the life of a config entry: validate_input of the      *)
(* config flow, async_setup_entry with its connection test, the sensor     *)
(* platform's first refresh and its entities, and async_unload_entry.      *)
(***************************************************************************)
EXTENDS Integers, Sequences, FiniteSets, TLC

\* ------------------------------------------------------------------ bounds

\* the calendar advances from day 0 up to day MaxDay
MaxDay == 1
\* days_to_fetch is drawn from 1..MaxDaysToFetch
MaxDaysToFetch == 2
\* a caller of the client alone begins a call while the client has created
\* fewer than MaxSessions sessions
MaxSessions == 2
\* the strings a helper is given have up to MaxLen characters
MaxLen == 4
\* the sequences of items a helper is given have up to MaxItems items
MaxItems == 2
\* the largest day offset of an entity
MaxOffset == 3

\* ------------------------------------------------------- program constants

MAX_RETRIES == 3
RETRY_DELAY == 2
DEFAULT_POLL_INTERVAL == 60
MIN_POLL_INTERVAL == 15
MAX_POLL_INTERVAL == 1440
MIN_DAYS_TO_FETCH == 1
MAX_DAYS_TO_FETCH == 30

\* ------------------------------------------------------------------- data

\* Day 0 is 2024-12-30; strftime("%Y-%m-%d") of day d, as <<year, month, day>>.
DateKey(d) == IF d <= 1 THEN <<2024, 12, 30 + d>> ELSE <<2025, 1, d - 1>>

Pizza == [MenuItemDescription |-> "Pizza"]
Salad == [MenuItemDescription |-> "Salad"]

\* A record maps menu lines to sequences of items; {} maps nothing.
EmptyRecord == [l \in {} |-> <<>>]
MenuA == [l \in {"BLUE LINE"} |-> <<Pizza, Salad>>]

\* the JSON bodies the service answers a 200 with
Bodies == {EmptyRecord, MenuA}

\* the status codes the service answers with
Statuses == {200, 204, 404, 500}

\* What one attempt meets: an exception of session.get, or a response.
\* json_ok says whether response.json() can parse the body.  The session is
\* built with ClientTimeout(total=timeout) alone (line 63): when the total
\* timeout elapses aiohttp raises asyncio.TimeoutError, which is no ClientError.
ExcOutcome(e) == [exc |-> e, status |-> 0, json_ok |-> FALSE, body |-> EmptyRecord]
Response(s, ok, b) == [exc |-> "none", status |-> s, json_ok |-> ok, body |-> b]

Outcomes ==
    {ExcOutcome("ClientError"), ExcOutcome("TimeoutError")}
    \cup {Response(200, TRUE, b) : b \in Bodies}
    \cup {Response(s, FALSE, EmptyRecord) : s \in Statuses}

\* Python's None: the value of a field that is null in the JSON body, and what
\* dict.get gives for a key the dict lacks
None == "<None>"

\* __init__.py line 30: what entry.data.get("school_id") can be: nothing, the
\* empty string, or an id
SchoolId == "1a2b3c4d-0000"
SchoolIds == {None, "", SchoolId}

\* How a call, or a cycle, ends.
NoResult == [kind |-> "none", rec |-> EmptyRecord]
Returned(r) == [kind |-> "return", rec |-> r]
Raised(e) == [kind |-> e, rec |-> EmptyRecord]

\* const.py line 20: the menu lines of the default configuration
MenuLines == {"BLUE LINE", "GOLD LINE"}

\* coordinator.data: None, or the dict of the last completed cycle
EmptyDict == [k \in {} |-> EmptyRecord]
NoData == [none |-> TRUE, dict |-> EmptyDict]
SomeData(m) == [none |-> FALSE, dict |-> m]

\* entry.options before any options flow
NoOptions == [set |-> FALSE, days |-> 0, interval |-> 0]

\* the meter of a cycle, switched off and switched on
MeterOff == [on |-> FALSE, requests |-> 0, delays |-> 0]
MeterOn == [on |-> TRUE, requests |-> 0, delays |-> 0]

\* no helper is called, and nothing is returned yet
NoCall == [fn |-> "none", arg |-> <<>>]
NoOutput == [done |-> FALSE, val |-> <<>>]

VARIABLES
    today,                  \* datetime.now().date(), as a day number
    days_to_fetch,          \* api.days_to_fetch
    session,                \* api._session: 0 for None, else the number of the session
    nsess,                  \* the ClientSessions created so far
    open_sessions,          \* the ClientSessions created and not closed
    rsess,                  \* the local session of get_menu_for_date, 0 outside an attempt
    fpc,                    \* get_menu_for_date: "idle", "request", "inflight", "sleep", "done"
    fdate,                  \* its serving_date
    attempt,                \* its loop variable
    nreq,                   \* requests the call has issued
    hist,                   \* what each of its attempts met, in order
    sleeps,                 \* its asyncio.sleep calls: [after |-> attempt, secs |-> seconds]
    fres,                   \* how the call ended
    cpc,                    \* get_menu_data: "idle", "loop", "fetch", "raised"
    ctoday,                 \* its local today
    ci,                     \* its loop variable i
    results,                \* its results dict
    cexc,                   \* the exception that left get_menu_data, "none" if none
    fetched,                \* how the call for each date of the cycle ended
    called,                 \* the dates get_menu_for_date was called for in the cycle, in order
    data,                   \* coordinator.data
    last_update_success,    \* coordinator.last_update_success
    spc,                    \* where the config entry is in its life (see Phases)
    registered,             \* hass.data[DOMAIN] holds the entry's api
    views,                  \* the SchoolCafeMenuSensor entities handed to the platform
    poll_interval,          \* entry.data[CONF_POLL_INTERVAL], in minutes
    school_id,              \* entry.data.get("school_id")
    update_interval,        \* coordinator.update_interval in minutes, 0 with no coordinator
    options,                \* entry.options
    meter,                  \* the requests and delays of the running get_menu_data
    hin,                    \* the argument of a helper of the client that is called alone
    hout                    \* what the helper returned

\* "flow", "flow_test", "flow_failed": validate_input before, in and after a
\* failed test_connection; "entry", "entry_test", "entry_failed": the same for
\* async_setup_entry; "platform", "first_refresh", "refreshed",
\* "platform_failed": the sensor platform before, in and after its first
\* refresh; "ready": the entities are added; "unloaded": the entry is unloaded;
\* "api": a SchoolCafeAPI used on its own, with no config entry; "helpers":
\* one of its helpers is called on its own
Phases == {"flow", "flow_test", "flow_failed", "entry", "entry_test", "entry_failed",
           "platform", "first_refresh", "refreshed", "platform_failed", "ready",
           "unloaded", "api", "api_test", "helpers"}

fvars == <<fpc, fdate, attempt, nreq, hist, sleeps, fres, rsess>>
cvars == <<cpc, ctoday, ci, results, cexc, fetched, called>>
svars == <<session, nsess, open_sessions>>
lvars == <<spc, registered, views>>
xvars == <<poll_interval, school_id, update_interval, options, meter, hin, hout>>
vars == <<today, days_to_fetch, svars, fvars, cvars, data, last_update_success, lvars,
          xvars>>

\* ------------------------------------------------------ get_menu_for_date

\* StatusClass without the 404 case of line 137
StatusClassNo404(status) == IF status # 200 THEN "http_error" ELSE "ok"

\* StatusClass taking every 2xx status as a success
StatusClassAny2xx(status) ==
    IF status = 404 THEN "not_found"
    ELSE IF status < 200 \/ status > 299 THEN "http_error"
    ELSE "ok"

\* lines 137, 140: the three cases of response.status
StatusClass(status) ==
    IF status = 404 THEN "not_found"
    ELSE IF status # 200 THEN "http_error"
    ELSE "ok"

\* ShouldRetry giving up one attempt early
ShouldRetryEarly(a) == a < MAX_RETRIES - 1

\* ShouldRetry sleeping after the last attempt too
ShouldRetryAlways(a) == TRUE

\* lines 143, 158: another attempt follows this one
ShouldRetry(a) == a < MAX_RETRIES

\* DelayAfter growing with the attempt number
DelayAfterBackoff(a) == RETRY_DELAY * a

\* lines 144, 163: the delay before the next attempt
DelayAfter(a) == RETRY_DELAY

\* RetryCatches as "except Exception"
RetryCatchesAll(e) == TRUE

\* line 157: the exceptions the retry handler catches
RetryCatches(e) == e = "ClientError"

\* ParseJson dropping the parsed body
ParseJsonDropped(o) ==
    IF o.json_ok THEN Returned(EmptyRecord) ELSE Raised("SchoolCafeDataError")

\* lines 150-155: a 200 response's body, parsed
ParseJson(o) == IF o.json_ok THEN Returned(o.body) ELSE Raised("SchoolCafeDataError")

\* lines 134-155: what the body of the try block does with what the attempt met,
\* before any handler: "continue", a return, or an exception raised in the block
TryBlock(o, a) ==
    IF o.exc # "none" THEN Raised(o.exc)
    ELSE CASE StatusClass(o.status) = "not_found" -> Returned(EmptyRecord)
           [] StatusClass(o.status) = "http_error" ->
                IF ShouldRetry(a) THEN [kind |-> "continue", rec |-> EmptyRecord]
                ELSE Raised("SchoolCafeConnectionError")
           [] OTHER -> ParseJson(o)

\* lines 132-168: one attempt, with the handler of line 157
AttemptResult(o, a) ==
    LET r == TryBlock(o, a) IN
    IF r.kind \in {"return", "continue"} THEN r
    ELSE IF RetryCatches(r.kind)
         THEN IF ShouldRetry(a) THEN [kind |-> "continue", rec |-> EmptyRecord]
              ELSE Raised("SchoolCafeConnectionError")
         ELSE r

\* _get_session creating a session on every call
GetSessionAlwaysNew(s, n, op) ==
    [session |-> n + 1, nsess |-> n + 1, open |-> op \cup {n + 1}]

\* lines 60-69: _get_session keeps an open session and creates one otherwise
GetSession(s, n, op) ==
    IF s = 0 \/ s \notin op
    THEN [session |-> n + 1, nsess |-> n + 1, open |-> op \cup {n + 1}]
    ELSE [session |-> s, nsess |-> n, open |-> op]

\* lines 71-75: close() closes an open session and forgets it
CloseSession(s, op) ==
    IF s # 0 /\ s \in op
    THEN [session |-> 0, open |-> op \ {s}]
    ELSE [session |-> s, open |-> op]

\* lines 134, 145, 164: a meter that is switched on counts the requests and
\* the delays of the running get_menu_data
Metered(m, requests, delays) ==
    IF m.on THEN [m EXCEPT !.requests = @ + requests, !.delays = @ + delays]
    ELSE m

\* lines 133-134: the attempt gets the session and issues the request
SendRequest ==
    /\ fpc = "request"
    /\ LET g == GetSession(session, nsess, open_sessions) IN
       /\ session' = g.session
       /\ nsess' = g.nsess
       /\ open_sessions' = g.open
       /\ rsess' = g.session
    /\ nreq' = nreq + 1
    /\ fpc' = "inflight"
    /\ UNCHANGED <<today, days_to_fetch, fdate, attempt, hist, sleeps, fres,
                   cvars, data, last_update_success, lvars>>
    /\ meter' = Metered(meter, 1, 0)
    /\ UNCHANGED <<poll_interval, school_id, update_interval, options, hin, hout>>

\* lines 134-168: the response or the exception arrives
Receive ==
    /\ fpc = "inflight"
    /\ \E o \in Outcomes :
         LET r == AttemptResult(o, attempt) IN
         /\ hist' = Append(hist, o)
         /\ IF r.kind = "continue"
            THEN /\ sleeps' = Append(sleeps, [after |-> attempt, secs |-> DelayAfter(attempt)])
                 /\ fpc' = "sleep"
                 /\ fres' = fres
            ELSE /\ sleeps' = sleeps
                 /\ fpc' = "done"
                 /\ fres' = r
    /\ rsess' = 0
    /\ UNCHANGED <<today, days_to_fetch, svars, fdate, attempt, nreq,
                   cvars, data, last_update_success, lvars>>
    /\ meter' = IF fpc' = "sleep" THEN Metered(meter, 0, 1) ELSE meter
    /\ UNCHANGED <<poll_interval, school_id, update_interval, options, hin, hout>>

\* lines 131, 145, 164, 170: the sleep ends and the loop goes on
WakeUp ==
    /\ fpc = "sleep"
    /\ IF attempt + 1 <= MAX_RETRIES
       THEN /\ attempt' = attempt + 1
            /\ fpc' = "request"
            /\ fres' = fres
       ELSE /\ attempt' = attempt
            /\ fpc' = "done"
            /\ fres' = Raised("SchoolCafeAPIError")
    /\ UNCHANGED <<today, days_to_fetch, svars, fdate, nreq, hist, sleeps, rsess,
                   cvars, data, last_update_success, lvars>>
    /\ UNCHANGED xvars

\* lines 114-131: a call of get_menu_for_date begins
CallBegins(d) ==
    /\ fdate' = d
    /\ fpc' = "request"
    /\ attempt' = 1
    /\ nreq' = 0
    /\ hist' = <<>>
    /\ sleeps' = <<>>
    /\ fres' = NoResult
    /\ rsess' = 0

\* the call has returned or raised to its caller
CallIsOver ==
    /\ fpc' = "idle"
    /\ fdate' = 0
    /\ attempt' = 1
    /\ nreq' = 0
    /\ hist' = <<>>
    /\ sleeps' = <<>>
    /\ fres' = NoResult
    /\ rsess' = 0

\* ---------------------------------------------------------- get_menu_data

\* Caught as "except SchoolCafeConnectionError"
CaughtConnectionOnly(e) == e = "SchoolCafeConnectionError"

\* line 190: the exceptions the per-date handler catches (every Exception)
Caught(e) == TRUE

\* line 192: the record of a date whose fetch failed
FailedRecord == EmptyRecord

\* StoredInto writing through to the dict the coordinator holds
StoredIntoShared(dt, res) == [none |-> FALSE, dict |-> res]

\* lines 179, 188, 192: results is a dict of its own, so a store into it
\* leaves coordinator.data as it is
StoredInto(dt, res) == dt

\* lines 182-184: the dates of a cycle started on day t
Window(t, n) == {DateKey(t + i) : i \in 0 .. n - 1}

\* sensor.py line 60 and the coordinator's timer: a refresh may start when no
\* cycle runs, as the first refresh of the platform or for the loaded entry
MayRefresh(p, c) == c = "idle" /\ p \in {"platform", "ready"}

\* sensor.py lines 48-60, 107, api.py lines 179-180: a refresh cycle starts;
\* the first one follows the construction of the coordinator with the
\* entry's poll interval
RefreshStart ==
    /\ MayRefresh(spc, cpc)
    /\ cpc' = "loop"
    /\ ctoday' = today
    /\ ci' = 0
    /\ results' = EmptyDict
    /\ fetched' = [k \in {} |-> NoResult]
    /\ called' = <<>>
    /\ cexc' = "none"
    /\ spc' = IF spc = "platform" THEN "first_refresh" ELSE spc
    /\ UNCHANGED <<today, days_to_fetch, svars, fvars, data, last_update_success,
                   registered, views>>
    /\ update_interval' = IF spc = "platform" THEN poll_interval ELSE update_interval
    /\ meter' = [meter EXCEPT !.requests = 0, !.delays = 0]
    /\ UNCHANGED <<poll_interval, school_id, options, hin, hout>>

\* TargetDate counting the offsets from 1
TargetDateFromTomorrow(t, i) == t + i + 1

\* line 183: target_date = today + timedelta(days=i)
TargetDate(t, i) == t + i

\* lines 182-187, 114-131: the loop calls get_menu_for_date for the next date
CallFetch ==
    /\ cpc = "loop"
    /\ ci < days_to_fetch
    /\ cpc' = "fetch"
    /\ CallBegins(TargetDate(ctoday, ci))
    /\ called' = Append(called, TargetDate(ctoday, ci))
    /\ UNCHANGED <<today, days_to_fetch, svars, ctoday, ci, results, cexc, fetched,
                   data, last_update_success, lvars>>
    /\ UNCHANGED xvars

\* lines 186-192: the call is over; its record, or {} for a caught exception
FetchDone ==
    /\ cpc = "fetch"
    /\ fpc = "done"
    /\ LET k == DateKey(fdate) IN
       /\ fetched' = [x \in DOMAIN fetched \cup {k} |-> IF x = k THEN fres ELSE fetched[x]]
       /\ IF fres.kind = "return"
          THEN /\ results' = [x \in DOMAIN results \cup {k} |->
                                 IF x = k THEN fres.rec ELSE results[x]]
               /\ ci' = ci + 1
               /\ cpc' = "loop"
               /\ cexc' = cexc
          ELSE IF Caught(fres.kind)
          THEN /\ results' = [x \in DOMAIN results \cup {k} |->
                                 IF x = k THEN FailedRecord ELSE results[x]]
               /\ ci' = ci + 1
               /\ cpc' = "loop"
               /\ cexc' = cexc
          ELSE /\ results' = results
               /\ ci' = ci
               /\ cpc' = "raised"
               /\ cexc' = fres.kind
    /\ CallIsOver
    /\ data' = StoredInto(data, results')
    /\ UNCHANGED <<today, days_to_fetch, svars, ctoday, called, last_update_success, lvars>>
    /\ UNCHANGED xvars

\* ------------------------------------------------------------ coordinator

\* UpdateResult keeping the dates of the old data the new cycle did not fetch
UpdateResultMerged(exc, res, old) ==
    [failed |-> FALSE,
     data |-> SomeData([k \in DOMAIN old.dict \cup DOMAIN res |->
                           IF k \in DOMAIN res THEN res[k] ELSE old.dict[k]])]

\* sensor.py lines 105-121: what _async_update_data does with how
\* get_menu_data ended: the new data, or UpdateFailed
UpdateResult(exc, res, old) ==
    IF exc = "none" THEN [failed |-> FALSE, data |-> SomeData(res)]
    ELSE [failed |-> TRUE, data |-> old]

\* api.py line 194, sensor.py lines 107-121, 60: get_menu_data is over and the
\* coordinator stores the new data, or keeps the old data on UpdateFailed; a
\* first refresh that failed ends the platform's setup
CycleReturn ==
    /\ IF cpc = "loop" THEN ci >= days_to_fetch ELSE cpc = "raised"
    /\ LET u == UpdateResult(cexc, results, data) IN
       /\ data' = u.data
       /\ last_update_success' = ~u.failed
       /\ spc' = IF spc # "first_refresh" THEN spc
                 ELSE IF u.failed THEN "platform_failed" ELSE "refreshed"
    /\ cpc' = "idle"
    /\ UNCHANGED <<today, days_to_fetch, svars, fvars, ctoday, ci, results, cexc, fetched,
                   called, registered, views>>
    /\ UNCHANGED xvars

\* midnight passes
Tick ==
    /\ today < MaxDay
    /\ today' = today + 1
    /\ UNCHANGED <<days_to_fetch, svars, fvars, cvars, data, last_update_success, lvars>>
    /\ UNCHANGED xvars

\* ------------------------------------------------------------- test_connection

\* TestConnection asking for a published menu
TestConnectionNeedsMenu(r) ==
    IF r.kind = "return" /\ r.rec # EmptyRecord THEN [ok |-> TRUE, exc |-> "none"]
    ELSE [ok |-> FALSE, exc |-> "SchoolCafeConnectionError"]

\* api.py lines 99-112: True if the fetch returned, SchoolCafeConnectionError
\* for whatever it raised
TestConnection(r) ==
    IF r.kind = "return" THEN [ok |-> TRUE, exc |-> "none"]
    ELSE [ok |-> FALSE, exc |-> "SchoolCafeConnectionError"]

\* config_flow.py lines 71-82, api.py lines 103-104: validate_input builds a
\* client and tests the connection with today's date
FlowValidate ==
    /\ spc = "flow"
    /\ fpc = "idle"
    /\ spc' = "flow_test"
    /\ CallBegins(today)
    /\ UNCHANGED <<today, days_to_fetch, svars, cvars, data, last_update_success,
                   registered, views>>
    /\ UNCHANGED xvars

\* config_flow.py lines 81-96: the test is over; the client is closed on
\* every path, the entry is created if the test passed
FlowDone ==
    /\ spc = "flow_test"
    /\ fpc = "done"
    /\ LET c == CloseSession(session, open_sessions) IN
       /\ session' = c.session
       /\ open_sessions' = c.open
    /\ spc' = IF TestConnection(fres).ok THEN "entry" ELSE "flow_failed"
    /\ CallIsOver
    /\ UNCHANGED <<today, days_to_fetch, nsess, cvars, data, last_update_success,
                   registered, views>>
    /\ UNCHANGED xvars

\* MissingFields finding no field missing
MissingFieldsNever(id) == FALSE

\* __init__.py lines 29-30: school_id is missing if config.get gives nothing
\* or the empty string
MissingFields(id) == id \in {None, ""}

\* __init__.py lines 24-49, api.py lines 58, 103-104: async_setup_entry raises
\* ConfigEntryError for a missing school_id; else it builds the entry's
\* client, which has no session, and tests the connection
EntrySetup ==
    /\ spc = "entry"
    /\ fpc = "idle"
    /\ IF MissingFields(school_id)
       THEN /\ spc' = "entry_failed"
            /\ UNCHANGED <<session, fvars>>
       ELSE /\ spc' = "entry_test"
            /\ session' = 0
            /\ CallBegins(today)
    /\ UNCHANGED <<today, days_to_fetch, nsess, open_sessions, cvars, data,
                   last_update_success, registered, views>>
    /\ UNCHANGED xvars

\* __init__.py lines 48-61: the test is over; the client is registered and the
\* platform set up, or the client is closed and ConfigEntryError raised
EntryTested ==
    /\ spc = "entry_test"
    /\ fpc = "done"
    /\ IF TestConnection(fres).ok
       THEN /\ registered' = TRUE
            /\ spc' = "platform"
            /\ UNCHANGED <<session, open_sessions>>
       ELSE /\ LET c == CloseSession(session, open_sessions) IN
               /\ session' = c.session
               /\ open_sessions' = c.open
            /\ spc' = "entry_failed"
            /\ registered' = registered
    /\ CallIsOver
    /\ UNCHANGED <<today, days_to_fetch, nsess, cvars, data, last_update_success, views>>
    /\ UNCHANGED xvars

\* ------------------------------------------------------------------ entities

\* MayCreateViews not awaiting the first refresh
MayCreateViewsEarly(p) == p \in {"platform", "refreshed"}

\* sensor.py line 60: the entities are built once the first refresh is over
MayCreateViews(p) == p = "refreshed"

\* sensor.py lines 65-78: one entity per day offset and menu line, with the
\* date key of the day of its creation plus its offset
NewViews(t, n) ==
    {[menu_line |-> l, day_offset |-> i, date_key |-> DateKey(t + i)] :
        l \in MenuLines, i \in 0 .. n - 1}

\* sensor.py lines 62-80: the entities are built and handed to the platform
SetupEntities ==
    /\ MayCreateViews(spc)
    /\ views = {}
    /\ views' = NewViews(today, days_to_fetch)
    /\ spc' = "ready"
    /\ UNCHANGED <<today, days_to_fetch, svars, fvars, cvars, data, last_update_success,
                   registered>>
    /\ UNCHANGED xvars

\* ------------------------------------------------------------------- unload

\* api.py lines 134, 145, 164: the tasks share one event loop, so another
\* task runs only when no cycle runs or the cycle is suspended in an await:
\* with a request in flight or in a retry delay
Suspended(c, f) == IF c = "idle" THEN TRUE ELSE f \in {"inflight", "sleep"}

\* __init__.py lines 66-84: the platforms are unloaded, which removes their
\* entities, or not; if they are, the client is closed and the entry's api is
\* dropped from hass.data
Unload ==
    /\ spc = "ready"
    /\ Suspended(cpc, fpc)
    /\ \E unload_ok \in BOOLEAN :
         IF unload_ok
         THEN /\ LET c == CloseSession(session, open_sessions) IN
                 /\ session' = c.session
                 /\ open_sessions' = c.open
              /\ registered' = FALSE
              /\ views' = {}
              /\ spc' = "unloaded"
         ELSE UNCHANGED <<session, open_sessions, registered, views, spc>>
    /\ UNCHANGED <<today, days_to_fetch, nsess, fvars, cvars, data, last_update_success>>
    /\ UNCHANGED xvars

\* api.py lines 172-181: the caller calls get_menu_data
ApiGetMenuData ==
    /\ spc = "api"
    /\ cpc = "idle"
    /\ fpc = "idle"
    /\ cpc' = "loop"
    /\ ctoday' = today
    /\ ci' = 0
    /\ results' = EmptyDict
    /\ fetched' = [k \in {} |-> NoResult]
    /\ called' = <<>>
    /\ cexc' = "none"
    /\ meter' = [meter EXCEPT !.requests = 0, !.delays = 0]
    /\ UNCHANGED <<today, days_to_fetch, svars, fvars, data, last_update_success, lvars,
                   poll_interval, school_id, update_interval, options, hin, hout>>

\* api.py line 194: get_menu_data returns its results, or an exception its
\* loop did not catch leaves it
ApiGetMenuDataOver ==
    /\ spc = "api"
    /\ IF cpc = "loop" THEN ci >= days_to_fetch ELSE cpc = "raised"
    /\ cpc' = "idle"
    /\ UNCHANGED <<today, days_to_fetch, svars, fvars, ctoday, ci, results, cexc, fetched,
                   called, data, last_update_success, lvars>>
    /\ UNCHANGED xvars

\* config_flow.py lines 46-56, 217-248: vol.All(vol.Coerce(int), vol.Range(...))
\* on days_to_fetch and poll_interval, in the advanced step and in the options
SchemaAccepts(days, interval) ==
    /\ days >= MIN_DAYS_TO_FETCH /\ days <= MAX_DAYS_TO_FETCH
    /\ interval >= MIN_POLL_INTERVAL /\ interval <= MAX_POLL_INTERVAL

\* what a user writes into the two fields
DaysInputs == {0, 1, 2, 31}
IntervalInputs == {14, 15, 1440, 1441}

\* config_flow.py lines 189-254: the options form is submitted; an input the
\* schema rejects shows the form again, an accepted one is stored as the
\* options of the entry (line 207)
OptionsFlow ==
    /\ spc = "ready"
    /\ Suspended(cpc, fpc)
    /\ \E d \in DaysInputs, i \in IntervalInputs :
         options' = IF SchemaAccepts(d, i)
                    THEN [set |-> TRUE, days |-> d, interval |-> i]
                    ELSE options
    /\ UNCHANGED <<today, days_to_fetch, svars, fvars, cvars, data, last_update_success,
                   lvars, poll_interval, school_id, update_interval, meter, hin, hout>>

\* ------------------------------------------------------ the client alone

\* api.py lines 114-131: the caller calls get_menu_for_date
ApiCall ==
    /\ spc = "api"
    /\ fpc = "idle"
    /\ nsess < MaxSessions
    /\ CallBegins(today)
    /\ UNCHANGED <<today, days_to_fetch, svars, cvars, data, last_update_success, lvars>>
    /\ UNCHANGED xvars

\* api.py lines 139, 150, 155, 168, 170: the call returns or raises
ApiCallOver ==
    /\ spc = "api"
    /\ fpc = "done"
    /\ CallIsOver
    /\ UNCHANGED <<today, days_to_fetch, svars, cvars, data, last_update_success, lvars>>
    /\ UNCHANGED xvars

\* api.py lines 99-104: the caller calls test_connection, which fetches today
ApiTestConnection ==
    /\ spc = "api"
    /\ fpc = "idle"
    /\ nsess < MaxSessions
    /\ spc' = "api_test"
    /\ CallBegins(today)
    /\ UNCHANGED <<today, days_to_fetch, svars, cvars, data, last_update_success,
                   registered, views>>
    /\ UNCHANGED xvars

\* api.py lines 105-112: the fetch is over and test_connection returns True
\* or raises; hin keeps how the fetch ended, hout what test_connection did
ApiTestConnectionOver ==
    /\ spc = "api_test"
    /\ fpc = "done"
    /\ spc' = "api"
    /\ hin' = [fn |-> "test_connection", arg |-> fres]
    /\ hout' = [done |-> TRUE, val |-> TestConnection(fres)]
    /\ CallIsOver
    /\ UNCHANGED <<today, days_to_fetch, svars, cvars, data, last_update_success,
                   registered, views, poll_interval, school_id, update_interval, options, meter>>

\* api.py lines 71-75: the caller calls close() between its calls
ApiClose ==
    /\ spc = "api"
    /\ fpc = "idle"
    /\ LET c == CloseSession(session, open_sessions) IN
       /\ session' = c.session
       /\ open_sessions' = c.open
    /\ UNCHANGED <<today, days_to_fetch, nsess, fvars, cvars, data, last_update_success,
                   lvars>>
    /\ UNCHANGED xvars

\* -------------------------------------------------------------- helpers

\* the characters of the strings given to the helpers: two letters, the
\* blank and the comma
Chars == {"M", "W", " ", ","}

\* the strings of up to n characters
Strings(n) == UNION {[1 .. k -> Chars] : k \in 0 .. n}

\* str.split(","): the pieces between the commas, one more than there are
\* commas
RECURSIVE Split(_)
Split(str) ==
    IF str = <<>> THEN << <<>> >>
    ELSE LET r == Split(Tail(str)) IN
         IF Head(str) = "," THEN << <<>> >> \o r
         ELSE << <<Head(str)>> \o r[1] >> \o Tail(r)

\* str.lstrip(), str.rstrip() and str.strip() for the blank
RECURSIVE LStrip(_)
LStrip(str) ==
    IF str # <<>> /\ Head(str) = " " THEN LStrip(Tail(str)) ELSE str

RECURSIVE RStrip(_)
RStrip(str) ==
    IF str # <<>> /\ str[Len(str)] = " " THEN RStrip(SubSeq(str, 1, Len(str) - 1))
    ELSE str

Strip(str) == RStrip(LStrip(str))

\* api.py lines 246-259: get_allergen_info
GetAllergenInfo(menu_item) ==
    LET allergens_str == IF "Allergens" \in DOMAIN menu_item THEN menu_item["Allergens"]
                         ELSE <<>>
    IN IF allergens_str # <<>>
       THEN [i \in 1 .. Len(Split(allergens_str)) |-> Strip(Split(allergens_str)[i])]
       ELSE <<>>

\* str.upper() on the line names of the model
Upper(line) == IF line = "blue line" THEN "BLUE LINE" ELSE line

\* ExtractMenuItemsForLine comparing the line names without their case
ExtractIgnoringCase(menu_data, line) ==
    IF \E k \in DOMAIN menu_data : Upper(k) = Upper(line)
    THEN menu_data[CHOOSE k \in DOMAIN menu_data : Upper(k) = Upper(line)]
    ELSE <<>>

\* api.py lines 196-207: menu_data.get(line, [])
ExtractMenuItemsForLine(menu_data, line) ==
    IF line \in DOMAIN menu_data THEN menu_data[line] ELSE <<>>

\* api.py line 224: item.get("MenuItemDescription", "Unknown Item")
Description(item) ==
    IF "MenuItemDescription" \in DOMAIN item THEN item.MenuItemDescription
    ELSE "Unknown Item"

\* api.py line 227: str.join raises TypeError for an entry that is no string
JoinRaises(descriptions) == \E i \in 1 .. Len(descriptions) : descriptions[i] = None

\* api.py line 227: ", ".join(descriptions), as the pieces of the string
RECURSIVE Join(_)
Join(descriptions) ==
    IF descriptions = <<>> THEN <<>>
    ELSE IF Len(descriptions) = 1 THEN <<descriptions[1]>>
    ELSE <<descriptions[1], ", ">> \o Join(Tail(descriptions))

\* api.py lines 209-227: format_menu_description: the string it returns, or
\* the exception it raises
FormatMenuDescription(menu_items) ==
    LET descriptions == [i \in 1 .. Len(menu_items) |-> Description(menu_items[i])] IN
    IF menu_items = <<>> THEN [exc |-> "none", text |-> <<"No items available">>]
    ELSE IF JoinRaises(descriptions) THEN [exc |-> "TypeError", text |-> <<>>]
    ELSE [exc |-> "none", text |-> Join(descriptions)]

\* the items given to get_allergen_info: with no Allergens field, or with a
\* string in it
AllergenItems ==
    {[f \in {} |-> <<>>]} \cup {[f \in {"Allergens"} |-> str] : str \in Strings(MaxLen)}

\* the items given to format_menu_description: with a description, with
\* none, and with a null one
DescribedItems ==
    {Pizza, Salad, [f \in {} |-> ""], [MenuItemDescription |-> None]}

\* the sequences of up to n of these items
ItemSeqs(n) == UNION {[1 .. k -> DescribedItems] : k \in 0 .. n}

\* the numbers of an item, with their Python type, and a null
PyInt(n) == [type |-> "int", v |-> n]
PyFloat(n) == [type |-> "float", v |-> n]
NoneValue == [type |-> "NoneType", v |-> 0]

\* dict.get(key, default)
Get(d, key, default) == IF key \in DOMAIN d THEN d[key] ELSE default

\* get_nutrition_info with 0 as the default of every field
GetNutritionInfoIntDefaults(menu_item) ==
    [calories |-> Get(menu_item, "Calories", PyInt(0)),
     total_fat |-> Get(menu_item, "TotalFat", PyInt(0)),
     carbs |-> Get(menu_item, "Carbs", PyInt(0)),
     protein |-> Get(menu_item, "Protein", PyInt(0))]

\* api.py lines 229-244: get_nutrition_info
GetNutritionInfo(menu_item) ==
    [calories |-> Get(menu_item, "Calories", PyInt(0)),
     total_fat |-> Get(menu_item, "TotalFat", PyFloat(0)),
     carbs |-> Get(menu_item, "Carbs", PyFloat(0)),
     protein |-> Get(menu_item, "Protein", PyInt(0))]

\* the items given to get_nutrition_info: each of the four fields is
\* missing, a number or null
NutritionFields == {"Calories", "TotalFat", "Carbs", "Protein"}
NutritionValues == {PyInt(400), PyFloat(12), NoneValue}
NutritionItems == UNION {[keys -> NutritionValues] : keys \in SUBSET NutritionFields}

\* the responses one attempt of get_menu_for_date can meet: informational,
\* success, redirect, client and server error codes, each with a body that
\* response.json() can parse or not
AllStatuses == {100, 200, 201, 204, 301, 304, 400, 404, 500, 503}
Responses == {Response(st, ok, b) : st \in AllStatuses, ok \in BOOLEAN, b \in Bodies}

\* str.lower() on the letters of the menu lines
LowerCase ==
    [c \in {"B", "D", "E", "G", "I", "L", "N", "O", "U"} |->
        CASE c = "B" -> "b" [] c = "D" -> "d" [] c = "E" -> "e" [] c = "G" -> "g"
          [] c = "I" -> "i" [] c = "L" -> "l" [] c = "N" -> "n" [] c = "O" -> "o"
          [] c = "U" -> "u"]
Lower(str) == [i \in 1 .. Len(str) |->
                  IF str[i] \in DOMAIN LowerCase THEN LowerCase[str[i]] ELSE str[i]]

\* str.replace(" ", "_")
ReplaceSpaces(str) == [i \in 1 .. Len(str) |-> IF str[i] = " " THEN "_" ELSE str[i]]

\* str(k) of a natural number, in decimal digits
Digit == [d \in 0 .. 9 |->
            CASE d = 0 -> "0" [] d = 1 -> "1" [] d = 2 -> "2" [] d = 3 -> "3" [] d = 4 -> "4"
              [] d = 5 -> "5" [] d = 6 -> "6" [] d = 7 -> "7" [] d = 8 -> "8" [] d = 9 -> "9"]
RECURSIVE Str(_)
Str(k) == IF k < 10 THEN <<Digit[k]>> ELSE Str(k \div 10) \o <<Digit[k % 10]>>

\* sensor.py lines 151-157: the suffix of the unique id
DaySuffix(day_offset) ==
    IF day_offset = 0 THEN <<"t", "o", "d", "a", "y">>
    ELSE IF day_offset = 1 THEN <<"t", "o", "m", "o", "r", "r", "o", "w">>
    ELSE <<"t", "o", "d", "a", "y", "_", "p", "l", "u", "s">> \o Str(day_offset)

\* sensor.py lines 147-159: the unique id of an entity; the config entry and
\* the school id are no part of it
UniqueId(config_entry, menu_line, day_offset) ==
    <<"s", "c", "h", "o", "o", "l", "c", "a", "f", "e", "_">>
        \o Lower(ReplaceSpaces(menu_line)) \o <<"_">> \o DaySuffix(day_offset)

\* the entities that are built: of one of two config entries, for a menu line
\* as the entry's data holds it, with an offset below the entry's days_to_fetch
EntryIds == {"entry1", "entry2"}
BlueLine == <<"B", "L", "U", "E", " ", "L", "I", "N", "E">>
BlueLineUnderscore == <<"B", "L", "U", "E", "_", "L", "I", "N", "E">>
BlueLineLower == <<"b", "l", "u", "e", " ", "l", "i", "n", "e">>
GoldLine == <<"G", "O", "L", "D", " ", "L", "I", "N", "E">>
LineNames == {BlueLine, BlueLineUnderscore, BlueLineLower, GoldLine}
Entities == [config_entry : EntryIds, menu_line : LineNames, day_offset : 0 .. MaxOffset]

\* the line names the raw records and the callers use
LineKeys == {"BLUE LINE", "blue line", "GOLD LINE"}

\* the item lists a raw record holds under a line
ItemLists == {<<>>, <<Pizza>>, <<Pizza, Salad>>, <<Salad, Pizza>>}

\* the raw records given to extract_menu_items_for_line
RawRecords == UNION {[keys -> ItemLists] : keys \in SUBSET LineKeys}

\* the calls of the helpers
HelperCalls ==
    {[fn |-> "get_allergen_info", arg |-> item] : item \in AllergenItems}
    \cup {[fn |-> "format_menu_description", arg |-> items] : items \in ItemSeqs(MaxItems)}
    \cup {[fn |-> "get_nutrition_info", arg |-> item] : item \in NutritionItems}
    \cup {[fn |-> "unique_id", arg |-> <<a, b>>] : a \in Entities, b \in Entities}
    \cup {[fn |-> "attempt", arg |-> [response |-> o, attempt |-> a]] :
             o \in Responses, a \in 1 .. MAX_RETRIES}
    \cup {[fn |-> "extract_menu_items_for_line", arg |-> [menu_data |-> rec, line |-> l]] :
             rec \in RawRecords, l \in LineKeys}

\* api.py lines 246-259: get_allergen_info is called and returns
CallGetAllergenInfo ==
    /\ spc = "helpers"
    /\ hin.fn = "get_allergen_info"
    /\ ~hout.done
    /\ hout' = [done |-> TRUE, val |-> GetAllergenInfo(hin.arg)]
    /\ UNCHANGED <<today, days_to_fetch, svars, fvars, cvars, data, last_update_success,
                   lvars, poll_interval, school_id, update_interval, options, meter, hin>>

\* api.py lines 209-227: format_menu_description is called and returns or
\* raises
CallFormatMenuDescription ==
    /\ spc = "helpers"
    /\ hin.fn = "format_menu_description"
    /\ ~hout.done
    /\ hout' = [done |-> TRUE, val |-> FormatMenuDescription(hin.arg)]
    /\ UNCHANGED <<today, days_to_fetch, svars, fvars, cvars, data, last_update_success,
                   lvars, poll_interval, school_id, update_interval, options, meter, hin>>

\* api.py lines 196-207: extract_menu_items_for_line is called and returns
CallExtractMenuItemsForLine ==
    /\ spc = "helpers"
    /\ hin.fn = "extract_menu_items_for_line"
    /\ ~hout.done
    /\ hout' = [done |-> TRUE,
                val |-> ExtractMenuItemsForLine(hin.arg.menu_data, hin.arg.line)]
    /\ UNCHANGED <<today, days_to_fetch, svars, fvars, cvars, data, last_update_success,
                   lvars, poll_interval, school_id, update_interval, options, meter, hin>>

\* sensor.py lines 126-159: two entities are constructed, which gives each its
\* unique id
CallUniqueId ==
    /\ spc = "helpers"
    /\ hin.fn = "unique_id"
    /\ ~hout.done
    /\ hout' = [done |-> TRUE,
                val |-> [i \in 1 .. 2 |-> UniqueId(hin.arg[i].config_entry, hin.arg[i].menu_line,
                                                   hin.arg[i].day_offset)]]
    /\ UNCHANGED <<today, days_to_fetch, svars, fvars, cvars, data, last_update_success,
                   lvars, poll_interval, school_id, update_interval, options, meter, hin>>

\* api.py lines 229-244: get_nutrition_info is called and returns
CallGetNutritionInfo ==
    /\ spc = "helpers"
    /\ hin.fn = "get_nutrition_info"
    /\ ~hout.done
    /\ hout' = [done |-> TRUE, val |-> GetNutritionInfo(hin.arg)]
    /\ UNCHANGED <<today, days_to_fetch, svars, fvars, cvars, data, last_update_success,
                   lvars, poll_interval, school_id, update_interval, options, meter, hin>>

\* api.py lines 132-168: one attempt of get_menu_for_date meets a response
CallAttempt ==
    /\ spc = "helpers"
    /\ hin.fn = "attempt"
    /\ ~hout.done
    /\ hout' = [done |-> TRUE, val |-> AttemptResult(hin.arg.response, hin.arg.attempt)]
    /\ UNCHANGED <<today, days_to_fetch, svars, fvars, cvars, data, last_update_success,
                   lvars, poll_interval, school_id, update_interval, options, meter, hin>>

\* ------------------------------------------------------------------- init

InitWith(n) ==
    /\ today = 0
    /\ days_to_fetch = n
    /\ session = 0
    /\ nsess = 0
    /\ open_sessions = {}
    /\ rsess = 0
    /\ fpc = "idle"
    /\ fdate = 0
    /\ attempt = 1
    /\ nreq = 0
    /\ hist = <<>>
    /\ sleeps = <<>>
    /\ fres = NoResult
    /\ cpc = "idle"
    /\ ctoday = 0
    /\ ci = 0
    /\ results = EmptyDict
    /\ cexc = "none"
    /\ fetched = [k \in {} |-> NoResult]
    /\ called = <<>>
    /\ data = NoData
    /\ last_update_success = TRUE
    /\ spc \in {"flow", "entry", "api", "helpers"}
    /\ school_id \in SchoolIds
    /\ registered = FALSE
    /\ views = {}
    /\ update_interval = 0
    /\ options = NoOptions
    /\ hout = NoOutput

\* const.py line 22: the default poll interval; no meter, no helper called
Plain ==
    /\ poll_interval = DEFAULT_POLL_INTERVAL
    /\ school_id = SchoolId
    /\ meter = MeterOff
    /\ hin = NoCall

Init == (\E n \in 1 .. MaxDaysToFetch : InitWith(n)) /\ spc = "flow" /\ Plain

Next ==
    \/ SendRequest
    \/ Receive
    \/ WakeUp
    \/ RefreshStart
    \/ CallFetch
    \/ FetchDone
    \/ CycleReturn
    \/ Tick
    \/ FlowValidate
    \/ FlowDone
    \/ EntrySetup
    \/ EntryTested
    \/ SetupEntities
    \/ Unload

Spec == Init /\ [][Next]_vars

\* test_integration.py line 37: the configuration the integration test runs
TEST_DAYS_TO_FETCH == 3

InitTest == InitWith(TEST_DAYS_TO_FETCH) /\ spc = "flow" /\ Plain

SpecTest == InitTest /\ [][Next]_vars

\* api.py lines 38-58: a client as its constructor leaves it, used on its own
InitApi == InitWith(TEST_DAYS_TO_FETCH) /\ spc = "api" /\ Plain

NextApi ==
    \/ SendRequest
    \/ Receive
    \/ WakeUp
    \/ ApiCall
    \/ ApiCallOver
    \/ ApiClose
    \/ ApiTestConnection
    \/ ApiTestConnectionOver

SpecApi == InitApi /\ [][NextApi]_vars

\* api.py lines 172-194: the client alone, its get_menu_data called again and
\* again; a request that was sent completes, fails or times out, a sleep ends
\* and the running coroutine takes its next step
InitCycle ==
    /\ \E n \in 1 .. MaxDaysToFetch : InitWith(n)
    /\ spc = "api"
    /\ poll_interval = DEFAULT_POLL_INTERVAL
    /\ school_id = SchoolId
    /\ meter = MeterOn
    /\ hin = NoCall

NextCycle ==
    \/ SendRequest
    \/ Receive
    \/ WakeUp
    \/ ApiGetMenuData
    \/ CallFetch
    \/ FetchDone
    \/ ApiGetMenuDataOver

SpecCycle ==
    /\ InitCycle
    /\ [][NextCycle]_vars
    /\ WF_vars(SendRequest)
    /\ WF_vars(Receive)
    /\ WF_vars(WakeUp)
    /\ WF_vars(CallFetch)
    /\ WF_vars(FetchDone)
    /\ WF_vars(ApiGetMenuDataOver)

\* __init__.py lines 24-63: a config entry of Home Assistant is set up, with
\* whatever school_id its data holds
InitEntry ==
    /\ \E n \in 1 .. MaxDaysToFetch : InitWith(n)
    /\ spc = "entry"
    /\ poll_interval = DEFAULT_POLL_INTERVAL
    /\ meter = MeterOff
    /\ hin = NoCall

NextEntry ==
    \/ SendRequest
    \/ Receive
    \/ WakeUp
    \/ EntrySetup
    \/ EntryTested

SpecEntry == InitEntry /\ [][NextEntry]_vars

\* a helper of the client is called on an argument
InitHelpers ==
    /\ InitWith(TEST_DAYS_TO_FETCH)
    /\ spc = "helpers"
    /\ poll_interval = DEFAULT_POLL_INTERVAL
    /\ school_id = SchoolId
    /\ meter = MeterOff
    /\ hin \in HelperCalls

NextHelpers ==
    \/ CallGetAllergenInfo
    \/ CallFormatMenuDescription
    \/ CallExtractMenuItemsForLine
    \/ CallGetNutritionInfo
    \/ CallAttempt
    \/ CallUniqueId

SpecHelpers == InitHelpers /\ [][NextHelpers]_vars

\* config_flow.py lines 143-168: the entry is created from what the advanced
\* step accepted (an import is led to the same step, lines 170-172)
InitOptions ==
    /\ \E d \in DaysInputs, i \in IntervalInputs :
         /\ SchemaAccepts(d, i)
         /\ d <= MaxDaysToFetch
         /\ InitWith(d)
         /\ poll_interval = i
    /\ school_id = SchoolId
    /\ spc = "flow"
    /\ meter = MeterOff
    /\ hin = NoCall

NextOptions ==
    \/ SendRequest
    \/ Receive
    \/ WakeUp
    \/ RefreshStart
    \/ CallFetch
    \/ FetchDone
    \/ CycleReturn
    \/ Tick
    \/ FlowValidate
    \/ FlowDone
    \/ EntrySetup
    \/ EntryTested
    \/ SetupEntities
    \/ Unload
    \/ OptionsFlow

SpecOptions == InitOptions /\ [][NextOptions]_vars

\* ---------------------------------------------------------------- readers

\* SnapshotFor as a plain data.get(date_key, {}), with no check of what the
\* coordinator holds
SnapshotForDefault(dt, k) ==
    IF k \in DOMAIN dt.dict
    THEN [present |-> TRUE, rec |-> dt.dict[k]]
    ELSE [present |-> TRUE, rec |-> EmptyRecord]

\* sensor.py lines 177-189: what a reader gets for a date key: the record the
\* coordinator holds for it, or nothing
SnapshotFor(dt, k) ==
    IF dt.none \/ k \notin DOMAIN dt.dict
    THEN [present |-> FALSE, rec |-> EmptyRecord]
    ELSE [present |-> TRUE, rec |-> dt.dict[k]]

\* sensor.py lines 175-181: the entity is available if the last update
\* succeeded, the coordinator has data and the data has the entity's date key
Available(v, lus, dt) == lus /\ SnapshotFor(dt, v.date_key).present

\* the state of an entity: None, a string, or the exception the property
\* raised
NoValue == [none |-> TRUE, text |-> <<>>]
Value(t) == [none |-> FALSE, text |-> t]
ValueRaised(e) == [none |-> TRUE, text |-> <<e>>]

\* sensor.py lines 184-195: native_value
NativeValue(v, lus, dt) ==
    IF ~Available(v, lus, dt) THEN NoValue
    ELSE LET menu_data == SnapshotFor(dt, v.date_key).rec
             menu_items == ExtractMenuItemsForLine(menu_data, v.menu_line)
             r == FormatMenuDescription(menu_items)
         IN IF menu_items = <<>> THEN Value(<<"No items available">>)
            ELSE IF r.exc = "none" THEN Value(r.text)
            ELSE ValueRaised(r.exc)

\* sensor.py line 208: Monday(0) through Friday(4); day 0 is a Monday
IsWeekday(d) == d % 7 < 5

\* sensor.py lines 198-238: extra_state_attributes at local day t: nothing for
\* an unavailable entity; else serving_date is the entity's date key (line
\* 211) and is_weekday is computed for target_date, the day of the reading
\* plus the entity's offset (lines 207-208)
ExtraStateAttributes(v, lus, dt, t) ==
    IF ~Available(v, lus, dt)
    THEN [none |-> TRUE, serving_date |-> <<>>, target_date |-> <<>>, is_weekday |-> FALSE]
    ELSE [none |-> FALSE,
          serving_date |-> v.date_key,
          target_date |-> DateKey(t + v.day_offset),
          is_weekday |-> IsWeekday(t + v.day_offset)]

\* ----------------------------------------------------------------- claims

Last(h) == h[Len(h)]
IsClientError(o) == o.exc = "ClientError"
IsTimeout(o) == o.exc = "TimeoutError"
IsBadStatus(o) == o.exc = "none" /\ o.status \notin {200, 404}
\* the retryable failures: a status other than 200 and 404, or a ClientError
IsRetryable(o) == IsBadStatus(o) \/ IsClientError(o)
IsParsed200(o) == o.exc = "none" /\ o.status = 200 /\ o.json_ok
IsMalformed200(o) == o.exc = "none" /\ o.status = 200 /\ ~o.json_ok
Is404(o) == o.exc = "none" /\ o.status = 404
ApiErrors == {"SchoolCafeConnectionError", "SchoolCafeDataError", "SchoolCafeAPIError"}
\* the step in which get_menu_data ends and the coordinator takes its result
CycleEnds == cpc # "idle" /\ cpc' = "idle"

\* C1: a call issues at most MAX_RETRIES requests; every delay is RETRY_DELAY
\* seconds whatever the attempt; the i-th delay follows the i-th attempt, is
\* never taken after the final attempt and is followed by another attempt.
C1_BoundedAttemptsFixedDelay ==
    /\ nreq <= MAX_RETRIES
    /\ Len(hist) <= nreq
    /\ Len(sleeps) <= nreq
    /\ \A i \in 1 .. Len(sleeps) :
         /\ sleeps[i].secs = RETRY_DELAY
         /\ sleeps[i].after = i
         /\ sleeps[i].after < MAX_RETRIES
    /\ fpc = "sleep" => Len(sleeps) = nreq /\ nreq < MAX_RETRIES
    /\ fpc = "done" => Len(sleeps) = nreq - 1

\* C1 witness: a call that met a ClientError, then a 500, then a third failure
C1_Witness ==
    /\ fpc = "done"
    /\ nreq = MAX_RETRIES
    /\ Len(hist) = 3
    /\ IsClientError(hist[1])
    /\ IsBadStatus(hist[2])
    /\ IsRetryable(hist[3])
    /\ Len(sleeps) = 2

\* C2: a call that met only retryable failures and then a 200 with a parseable
\* body returns that body's record and raises nothing.
C2_SuccessAfterFailures ==
    (/\ fpc = "done"
     /\ Len(hist) >= 1
     /\ IsParsed200(Last(hist))
     /\ \A i \in 1 .. Len(hist) - 1 : IsRetryable(hist[i]))
    => fres = Returned(Last(hist).body)

\* C2 witness: attempts 1 and 2 failed, attempt 3 answered 200 with MenuA
C2_Witness ==
    /\ fpc = "done"
    /\ Len(hist) = 3
    /\ IsBadStatus(hist[1])
    /\ IsClientError(hist[2])
    /\ hist[3] = Response(200, TRUE, MenuA)
    /\ fres = Returned(MenuA)

\* C3: a call whose attempts all met retryable failures ends with
\* SchoolCafeConnectionError after exactly MAX_RETRIES attempts, and a call
\* ends that way no earlier.
C3_ExhaustedRaisesConnectionError ==
    /\ (fpc = "done" /\ \A i \in 1 .. Len(hist) : IsRetryable(hist[i]))
       => (Len(hist) = MAX_RETRIES /\ nreq = MAX_RETRIES
           /\ fres = Raised("SchoolCafeConnectionError"))
    /\ fres.kind = "SchoolCafeConnectionError"
       => (Len(hist) = MAX_RETRIES /\ \A i \in 1 .. Len(hist) : IsRetryable(hist[i]))

\* C3 witness: three failures of both kinds, and the connectivity failure
C3_Witness ==
    /\ fpc = "done"
    /\ Len(hist) = 3
    /\ IsBadStatus(hist[1])
    /\ IsClientError(hist[2])
    /\ IsClientError(hist[3])
    /\ fres = Raised("SchoolCafeConnectionError")

\* C4: an attempt answered with 404 ends the call at once with the empty
\* record: no error, no further request, no delay after it.
C4_NotFoundIsEmptyRecord ==
    (Len(hist) >= 1 /\ Is404(Last(hist)))
    => /\ fpc = "done"
       /\ fres = Returned(EmptyRecord)
       /\ nreq = Len(hist)
       /\ Len(sleeps) = Len(hist) - 1

\* C4 witness: a 404 on the second attempt, after a retryable failure
C4_Witness ==
    /\ Len(hist) = 2
    /\ IsRetryable(hist[1])
    /\ Is404(hist[2])
    /\ fres = Returned(EmptyRecord)

\* C5: a 200 whose body cannot be parsed ends the call on that attempt with
\* SchoolCafeDataError: no retry, no delay, and no SchoolCafeConnectionError.
C5_MalformedIsDataError ==
    (Len(hist) >= 1 /\ IsMalformed200(Last(hist)))
    => /\ fpc = "done"
       /\ fres = Raised("SchoolCafeDataError")
       /\ nreq = Len(hist)
       /\ Len(sleeps) = Len(hist) - 1

\* C5 witness: an unparseable body on the final attempt
C5_Witness ==
    /\ Len(hist) = MAX_RETRIES
    /\ IsMalformed200(hist[3])
    /\ fres = Raised("SchoolCafeDataError")

\* C6 as claimed: a request that times out is retried like a connection error,
\* and a call whose attempts all time out raises SchoolCafeConnectionError.
C6_TimeoutIsRetried ==
    /\ (Len(hist) >= 1 /\ Len(hist) < MAX_RETRIES /\ IsTimeout(Last(hist)))
       => fpc # "done"
    /\ (fpc = "done" /\ Len(hist) >= 1 /\ \A i \in 1 .. Len(hist) : IsTimeout(hist[i]))
       => fres = Raised("SchoolCafeConnectionError")

\* C7 as claimed: a finished call ends in one of three outcomes, the
\* connectivity failure exactly when the service was not reached, the data
\* failure exactly when a 200 body was unusable, a record otherwise.
C7_ThreeOutcomes ==
    (fpc = "done" /\ Len(hist) >= 1)
    => /\ fres.kind \in {"return", "SchoolCafeConnectionError", "SchoolCafeDataError"}
       /\ fres.kind = "SchoolCafeDataError" <=> IsMalformed200(Last(hist))
       /\ fres.kind = "SchoolCafeConnectionError"
            <=> (Last(hist).exc # "none" \/ IsBadStatus(Last(hist)))
       /\ fres.kind = "return" <=> (Is404(Last(hist)) \/ IsParsed200(Last(hist)))

\* C8: a connectivity or data failure of one date's fetch is caught: the date
\* gets the empty record, the cycle goes on to the later dates, every date
\* whose fetch returned holds what it returned, and the cycle returns normally
\* with a record for every date of its window.
C8_FailureIsPerDate ==
    /\ \A k \in DOMAIN fetched :
         fetched[k].kind \in ApiErrors
         => (cpc # "raised" /\ k \in DOMAIN results /\ results[k] = EmptyRecord)
    /\ \A k \in DOMAIN fetched :
         fetched[k].kind = "return"
         => (k \in DOMAIN results /\ results[k] = fetched[k].rec)
    /\ (/\ cpc = "idle"
        /\ DOMAIN fetched # {}
        /\ \A k \in DOMAIN fetched : fetched[k].kind \in ApiErrors \cup {"return"})
       => /\ DOMAIN fetched = Window(ctoday, days_to_fetch)
          /\ last_update_success
          /\ data = SomeData(results)

\* C8 witness: a completed cycle whose first date failed on connectivity and
\* whose second date returned MenuA
C8_Witness ==
    /\ cpc = "idle"
    /\ days_to_fetch = 2
    /\ DOMAIN fetched = Window(ctoday, 2)
    /\ fetched[DateKey(ctoday)] = Raised("SchoolCafeConnectionError")
    /\ fetched[DateKey(ctoday + 1)] = Returned(MenuA)
    /\ data = SomeData([k \in Window(ctoday, 2) |->
                          IF k = DateKey(ctoday) THEN EmptyRecord ELSE MenuA])

\* C9 as claimed: a cycle in which a fetch raised an exception that is no
\* SchoolCafeAPIError ends with UpdateFailed and leaves the data as it was.
C9_UnexpectedFailsCycle ==
    [][(CycleEnds /\ \E k \in DOMAIN fetched : fetched[k].kind \notin ApiErrors \cup {"return"})
       => (~last_update_success' /\ data' = data)]_vars

AllKeys == {DateKey(d) : d \in 0 .. MaxDay + MaxDaysToFetch}

\* C11: what a reader gets for any date changes only in the step that ends a
\* cycle whose per-date calls are all over, and then the reader gets, for all
\* dates at once, the records of that cycle and of no other; while a cycle is
\* in flight, every read returns what it returned before the cycle began
C11_WholeSnapshotSwap ==
    [][(\E k \in AllKeys : SnapshotFor(data', k) # SnapshotFor(data, k))
         => /\ cpc = "loop" /\ ci = days_to_fetch /\ fpc = "idle"
            /\ cpc' = "idle"
            /\ DOMAIN results = Window(ctoday, days_to_fetch)
            /\ \A k \in AllKeys :
                  SnapshotFor(data', k) =
                      IF k \in DOMAIN results
                      THEN [present |-> TRUE, rec |-> results[k]]
                      ELSE [present |-> FALSE, rec |-> EmptyRecord]]_vars

\* a cycle is suspended in a retry delay of its second date, its record of
\* the first date differs from the one readers still get
C11_Witness ==
    /\ cpc = "fetch" /\ fpc = "sleep" /\ ci = 1
    /\ ~data.none
    /\ DateKey(ctoday) \in DOMAIN data.dict
    /\ results[DateKey(ctoday)] # data.dict[DateKey(ctoday)]
    /\ SnapshotFor(data, DateKey(ctoday)).rec = data.dict[DateKey(ctoday)]

\* the phases before the first refresh cycle has completed
BeforeFirstRefresh ==
    {"flow", "flow_test", "flow_failed", "entry", "entry_test", "entry_failed",
     "platform", "first_refresh"}

\* C13: in every state before the first refresh cycle has completed, a read
\* of the snapshot is absent for every date, and an entity for any date and
\* menu line is not available and has no value
C13_AbsentBeforeFirstRefresh ==
    spc \in BeforeFirstRefresh =>
        \A k \in AllKeys :
            /\ ~SnapshotFor(data, k).present
            /\ \A l \in MenuLines :
                 LET v == [menu_line |-> l, day_offset |-> 0, date_key |-> k] IN
                 /\ ~Available(v, last_update_success, data)
                 /\ NativeValue(v, last_update_success, data) = NoValue

\* the first refresh is in flight and has fetched a menu for its first date
C13_Witness ==
    /\ spc = "first_refresh" /\ cpc = "fetch" /\ ci = 1
    /\ results[DateKey(ctoday)] = MenuA
    /\ ~SnapshotFor(data, DateKey(ctoday)).present

\* C14: after a completed cycle started on day ctoday with days_to_fetch = n,
\* the keys of the snapshot are exactly the n dates ctoday .. ctoday + n - 1,
\* get_menu_for_date was called once for each of them, in that order, and
\* each key whose call returned holds the record it returned; a call that
\* ends on a 404 returns the empty record
C14_WindowOnePerDate ==
    /\ (cpc = "idle" /\ ~data.none) =>
          LET W == Window(ctoday, days_to_fetch) IN
          /\ DOMAIN data.dict = W
          /\ Cardinality(W) = days_to_fetch
          /\ called = [i \in 1 .. days_to_fetch |-> ctoday + i - 1]
          /\ DOMAIN fetched = W
          /\ \A k \in W : fetched[k].kind = "return" => data.dict[k] = fetched[k].rec
    /\ (cpc = "fetch" /\ fpc = "done" /\ hist # <<>> /\ Is404(Last(hist))) =>
          /\ fres = Returned(EmptyRecord)
          /\ fdate \in ctoday .. ctoday + days_to_fetch - 1

\* a completed cycle of three dates: the second has the empty record, the
\* first and the third hold their two items
C14_Witness ==
    /\ cpc = "idle" /\ ~data.none /\ days_to_fetch = 3
    /\ called = <<ctoday, ctoday + 1, ctoday + 2>>
    /\ fetched[DateKey(ctoday)] = Returned(MenuA)
    /\ fetched[DateKey(ctoday + 1)] = Returned(EmptyRecord)
    /\ fetched[DateKey(ctoday + 2)] = Returned(MenuA)
    /\ data.dict[DateKey(ctoday)] = MenuA
    /\ data.dict[DateKey(ctoday + 1)] = EmptyRecord
    /\ data.dict[DateKey(ctoday + 2)] = MenuA
    /\ Len(MenuA["BLUE LINE"]) = 2

\* C15: an entity whose date has no entry in the snapshot, or an empty
\* record, has the value "No items available", never no value
C15_NoItemsNeverUnavailable ==
    \A v \in views :
        LET s == SnapshotFor(data, v.date_key) IN
        (~s.present \/ s.rec = EmptyRecord) =>
            NativeValue(v, last_update_success, data) = Value(<<"No items available">>)

\* C16: the step that unloads the entry leaves no session, and once the
\* entry is unloaded no refresh cycle starts, no request is issued and no
\* session is open; a failed unload of the platforms leaves the session and
\* the registration as they are
C16_QuietAfterShutdown ==
    [][/\ (spc = "ready" /\ spc' = "unloaded") =>
             (session' = 0 /\ open_sessions' = {} /\ ~registered')
       /\ (spc = "ready" /\ spc' = "ready") =>
             (registered' = registered /\ (cpc' = cpc => open_sessions' = open_sessions))
       /\ spc = "unloaded" =>
             /\ ~(cpc = "idle" /\ cpc' # "idle")
             /\ ~(fpc = "request" /\ fpc' = "inflight")
             /\ open_sessions' = {}]_vars

\* C17: a request in flight runs on a session that is still open, and once
\* the entry is unloaded no session is open
C17_ReleaseAfterInFlight ==
    /\ fpc = "inflight" => rsess \in open_sessions
    /\ spc = "unloaded" => open_sessions = {}

\* the phases in which the code that owned a client has ended
ExitPhases == {"flow_failed", "entry", "entry_failed", "platform_failed", "unloaded"}

\* C19: on every exit path of the code that owns a client (the validation of
\* the config flow passing or failing, the entry's setup failing at the
\* connection test or at the first refresh, the unload) no session is left
\* open
C19_ReleasedOnEveryExit ==
    spc \in ExitPhases => (open_sessions = {} /\ session = 0)

\* a step that issues a request
RequestStep == fpc = "request" /\ fpc' = "inflight"

\* C18: for every sequence of get_menu_for_date and close() calls on one
\* client: the client holds at most one open session, and a request in
\* flight runs on it; a session is created only by a request, so none exists
\* before the first one; a request made while the client holds an open
\* session uses that session and creates none, one made after close()
\* creates a session never used before; with no open session nothing but a
\* request changes the sessions, so close() then changes nothing, and a
\* second close() is the same as one
C18_SessionLifecycle ==
    /\ [](/\ Cardinality(open_sessions) <= 1
          /\ open_sessions \subseteq {session}
          /\ session \in 0 .. nsess
          /\ fpc = "inflight" => (rsess = session /\ rsess \in open_sessions)
          /\ \A s \in 0 .. nsess : \A op \in SUBSET (1 .. nsess) :
                LET c == CloseSession(s, op) IN
                /\ CloseSession(c.session, c.open) = c
                /\ (s = 0 \/ s \notin op) => c = [session |-> s, open |-> op])
    /\ [][/\ nsess' # nsess => RequestStep
          /\ RequestStep =>
                IF session \in open_sessions
                THEN rsess' = session /\ UNCHANGED svars
                ELSE /\ rsess' = nsess + 1 /\ nsess' = nsess + 1
                     /\ session' = rsess' /\ open_sessions' = {rsess'}
          /\ (open_sessions = {} /\ ~RequestStep) => UNCHANGED svars]_vars

\* after a close() the client made a request on a second session and, after
\* a failed attempt, a further request on the same session
C18_Witness ==
    /\ spc = "api" /\ fpc = "inflight" /\ attempt = 2
    /\ nsess = 2 /\ session = 2 /\ rsess = 2 /\ open_sessions = {2}

\* C20: the platform's setup starts with the first refresh; no entity exists
\* before that cycle has completed successfully and stored its data, and
\* none exists after a first refresh that failed
C20_ViewsAfterFirstRefresh ==
    /\ spc \in BeforeFirstRefresh \cup {"platform_failed"} => views = {}
    /\ spc = "platform" => (cpc = "idle" /\ data.none)
    /\ spc = "first_refresh" => cpc # "idle"
    /\ spc = "refreshed" => (cpc = "idle" /\ ~data.none /\ last_update_success)
    /\ views # {} =>
          /\ spc = "ready"
          /\ ~data.none
          /\ Cardinality(views) = days_to_fetch * Cardinality(MenuLines)

\* the entities exist, after a first refresh that stored its data
C20_Witness ==
    /\ spc = "ready" /\ views # {} /\ ~data.none /\ last_update_success
    /\ \A v \in views : v.date_key \in AllKeys /\ v.menu_line \in MenuLines

\* the positions of the commas of a string, and the position of the k-th
\* one, with 0 before the first and one past the end after the last
CommaPos(str) == {i \in 1 .. Len(str) : str[i] = ","}
KthComma(str, k) ==
    IF k = 0 THEN 0
    ELSE IF k > Cardinality(CommaPos(str)) THEN Len(str) + 1
    ELSE CHOOSE p \in CommaPos(str) : Cardinality({q \in CommaPos(str) : q < p}) = k - 1

\* the i-th piece of a string: what stands between its commas i - 1 and i
Piece(str, i) == SubSeq(str, KthComma(str, i - 1) + 1, KthComma(str, i) - 1)

\* the string has no blank at either end
Trimmed(str) == str = <<>> \/ (str[1] # " " /\ str[Len(str)] # " ")

\* the string p without the blanks at its ends: e is inside p, trimmed, and
\* only blanks surround it
IsStripOf(e, p) ==
    /\ Trimmed(e)
    /\ \E a \in 0 .. Len(p) : \E b \in 0 .. Len(p) :
          /\ a + Len(e) + b = Len(p)
          /\ \A i \in 1 .. a : p[i] = " "
          /\ \A i \in 1 .. Len(e) : p[a + i] = e[i]
          /\ \A i \in 1 .. b : p[a + Len(e) + i] = " "

\* C21: get_allergen_info returns, in order, the entries between the commas
\* of the Allergens field, each without the blanks around it; an absent or
\* empty field gives the empty list; the result is never a list of one empty
\* string
C21_AllergensSplitTrimmed ==
    (hin.fn = "get_allergen_info" /\ hout.done) =>
        LET item == hin.arg
            str == IF "Allergens" \in DOMAIN item THEN item["Allergens"] ELSE <<>>
            res == hout.val
        IN /\ str = <<>> => res = <<>>
           /\ res # << <<>> >>
           /\ str # <<>> =>
                 /\ Len(res) = Cardinality(CommaPos(str)) + 1
                 /\ \A i \in 1 .. Len(res) : IsStripOf(res[i], Piece(str, i))

\* the item has a description
HasDescription(item) ==
    "MenuItemDescription" \in DOMAIN item /\ item.MenuItemDescription # None

\* C22: format_menu_description never fails; it returns "No items available"
\* for the empty sequence and otherwise the descriptions of the items in
\* order, with ", " between them and "Unknown Item" for each item that has
\* no description
C22_DescriptionsJoined ==
    (hin.fn = "format_menu_description" /\ hout.done) =>
        LET items == hin.arg
            res == hout.val
        IN /\ res.exc = "none"
           /\ items = <<>> => res.text = <<"No items available">>
           /\ items # <<>> =>
                 /\ Len(res.text) = 2 * Len(items) - 1
                 /\ \A i \in 1 .. Len(items) :
                       res.text[2 * i - 1] =
                           IF HasDescription(items[i]) THEN items[i].MenuItemDescription
                           ELSE "Unknown Item"
                 /\ \A i \in 1 .. Len(items) - 1 : res.text[2 * i] = ", "

\* C23: extract_menu_items_for_line returns the items the record holds under
\* exactly the given line name, in their order, and the empty sequence when
\* the record has no such key, whatever it holds under names that differ in
\* case; the call leaves the record as it was
C23_ItemsUnderExactKey ==
    /\ [](hin.fn = "extract_menu_items_for_line" /\ hout.done =>
            LET rec == hin.arg.menu_data
                line == hin.arg.line
            IN /\ line \in DOMAIN rec => hout.val = rec[line]
               /\ line \notin DOMAIN rec => hout.val = <<>>)
    /\ [][hin' = hin]_vars

\* the record has the line in capitals only and is asked for it in small
\* letters; it holds two items under another line
C23_Witness ==
    /\ hin.fn = "extract_menu_items_for_line" /\ hout.done
    /\ hin.arg.line = "blue line"
    /\ DOMAIN hin.arg.menu_data = {"BLUE LINE", "GOLD LINE"}
    /\ hin.arg.menu_data["BLUE LINE"] = <<Pizza, Salad>>
    /\ hout.val = <<>>

\* the field of the result and its default for each field of the item
NutritionDefaults ==
    {<<"calories", "Calories", PyInt(0)>>, <<"total_fat", "TotalFat", PyFloat(0)>>,
     <<"carbs", "Carbs", PyFloat(0)>>, <<"protein", "Protein", PyInt(0)>>}

\* C24: get_nutrition_info returns the four fields calories, total_fat, carbs
\* and protein, each with what the item holds in Calories, TotalFat, Carbs
\* and Protein, or with its default 0, 0.0, 0.0 and 0 if the item lacks the
\* field; the call leaves the item as it was
C24_NutritionWithDefaults ==
    /\ [](hin.fn = "get_nutrition_info" /\ hout.done =>
            /\ DOMAIN hout.val = {"calories", "total_fat", "carbs", "protein"}
            /\ \A t \in NutritionDefaults :
                  hout.val[t[1]] = IF t[2] \in DOMAIN hin.arg THEN hin.arg[t[2]] ELSE t[3])
    /\ [][hin' = hin]_vars

\* an item with only Calories = 400 gives 400 and the three defaults
C24_Witness ==
    /\ hin.fn = "get_nutrition_info" /\ hout.done
    /\ hin.arg = [f \in {"Calories"} |-> PyInt(400)]
    /\ hout.val = [calories |-> PyInt(400), total_fat |-> PyFloat(0), carbs |-> PyFloat(0),
                   protein |-> PyInt(0)]

\* the coordinator exists
CoordinatorPhases == {"first_refresh", "refreshed", "ready"}

\* C25: the interval the coordinator runs with is within 15..1440 minutes and
\* the number of days fetched per cycle is within 1..30, and a cycle started
\* after the options were changed runs with the options' interval and day count
C25_RangesAndOptionsUsed ==
    /\ [](spc \in CoordinatorPhases =>
            /\ update_interval >= 15 /\ update_interval <= 1440
            /\ days_to_fetch >= 1 /\ days_to_fetch <= 30)
    /\ [][(cpc = "idle" /\ cpc' = "loop" /\ options.set) =>
            (days_to_fetch' = options.days /\ update_interval' = options.interval)]_vars

\* what a retryable failure does at attempt a: another attempt follows, or the
\* last attempt raises the connection error
RetryableFailure(a) ==
    IF a < MAX_RETRIES THEN [kind |-> "continue", rec |-> EmptyRecord]
    ELSE Raised("SchoolCafeConnectionError")

\* C26: a response is handled in exactly one of three ways by its status: 200
\* parses the body and returns it, 404 returns the empty record, and every
\* other status, other 2xx and 3xx codes included, is a retryable failure
\* whatever its body holds; the body is parsed only for status 200
C26_ThreeStatusCases ==
    hin.fn = "attempt" /\ hout.done =>
        LET o == hin.arg.response
            a == hin.arg.attempt
            r == hout.val
        IN /\ o.status = 200 =>
                r = IF o.json_ok THEN Returned(o.body) ELSE Raised("SchoolCafeDataError")
           /\ o.status = 404 => r = Returned(EmptyRecord)
           /\ o.status \notin {200, 404} => r = RetryableFailure(a)

\* a 204 with a body that would parse is a retryable failure, at the last
\* attempt the connection error
C26_Witness ==
    /\ hin.fn = "attempt" /\ hout.done
    /\ hin.arg.response = Response(204, TRUE, MenuA)
    /\ hin.arg.attempt = MAX_RETRIES
    /\ hout.val = Raised("SchoolCafeConnectionError")

\* C27: a running get_menu_data comes to its end, having sent at most
\* days_to_fetch * MAX_RETRIES requests and slept at most
\* days_to_fetch * (MAX_RETRIES - 1) times between attempts, and it ends by
\* returning a record for every date of the cycle
C27_CycleTerminates ==
    /\ (cpc # "idle" ~> cpc = "idle")
    /\ [](/\ meter.requests <= days_to_fetch * MAX_RETRIES
          /\ meter.delays <= days_to_fetch * (MAX_RETRIES - 1))
    /\ [][CycleEnds =>
            /\ cpc = "loop"
            /\ DOMAIN results' = Window(ctoday, days_to_fetch)]_vars

\* a cycle that met the bounds: every attempt of every date failed
C27_Witness ==
    /\ spc = "api" /\ meter.on /\ cpc = "idle"
    /\ meter.requests = days_to_fetch * MAX_RETRIES
    /\ meter.delays = days_to_fetch * (MAX_RETRIES - 1)
    /\ DOMAIN results = Window(ctoday, days_to_fetch)
    /\ \A k \in DOMAIN results : results[k] = EmptyRecord

\* C28: test_connection returns True exactly when the fetch of today's date
\* returned, an empty record included; whatever the fetch raised, it raises
\* SchoolCafeConnectionError; and no session is closed while it runs
C28_TestConnectionOutcome ==
    /\ [](hin.fn = "test_connection" /\ hout.done =>
            /\ hout.val.ok <=> hin.arg.kind = "return"
            /\ hout.val.ok => hout.val.exc = "none"
            /\ ~hout.val.ok => hout.val.exc = "SchoolCafeConnectionError")
    /\ [][spc = "api_test" =>
            /\ open_sessions \subseteq open_sessions'
            /\ spc' = "api" => fdate = today /\ session' = session]_vars

\* a test whose fetch returned the empty record returned True and left its
\* session open
C28_Witness ==
    /\ spc = "api" /\ hin.fn = "test_connection" /\ hout.done
    /\ hin.arg = Returned(EmptyRecord)
    /\ hout.val.ok
    /\ session \in open_sessions

\* C29: once a refresh cycle that began on the current day is over, every
\* view's date key is the current date plus the view's offset and a key of
\* the snapshot, so the view is available
C29_ViewsFollowTheDay ==
    (spc = "ready" /\ cpc = "idle" /\ ctoday = today /\ last_update_success) =>
        \A v \in views :
            /\ v.date_key = DateKey(today + v.day_offset)
            /\ v.date_key \in DOMAIN data.dict
            /\ Available(v, last_update_success, data)

\* C30: for every available view, the date its is_weekday attribute is
\* computed for is the date of its serving_date attribute, which is the key
\* of the record its value is read from
C30_WeekdayOfServingDate ==
    \A v \in views :
        LET a == ExtraStateAttributes(v, last_update_success, data, today) IN
        ~a.none =>
            /\ a.target_date = a.serving_date
            /\ SnapshotFor(data, a.serving_date).present

\* C31: a failing async_setup_entry leaves no trace.  With a missing school_id
\* it raises ConfigEntryError with no client created and no request sent; with
\* a failed connection test it closes the client's session and raises
\* ConfigEntryError; in both cases hass.data is as it was and no platform is
\* set up, then or later.  The api is registered only by the step that ends a
\* connection test whose fetch returned.
C31_FailedSetupLeavesNoTrace ==
    /\ [][(spc = "entry" /\ school_id \in {None, ""}) =>
            /\ spc' = "entry_failed"
            /\ nsess' = nsess /\ nreq' = nreq /\ fpc' = "idle"
            /\ session' = session /\ open_sessions' = open_sessions
            /\ registered' = registered]_vars
    /\ [][(spc = "entry_test" /\ fpc = "done" /\ fres.kind # "return") =>
            /\ spc' = "entry_failed"
            /\ session' = 0 /\ open_sessions' = {}
            /\ registered' = registered]_vars
    /\ [](spc = "entry_failed" => ~registered /\ views = {} /\ update_interval = 0)
    /\ [][spc = "entry_failed" => spc' = "entry_failed" /\ nreq' = nreq]_vars
    /\ [][(~registered /\ registered') =>
            (spc = "entry_test" /\ fpc = "done" /\ fres.kind = "return")]_vars

\* a setup whose connection test failed: its client made a session, which is
\* closed, and nothing is registered
C31_Witness ==
    /\ spc = "entry_failed"
    /\ school_id = SchoolId
    /\ nsess = 1 /\ session = 0 /\ open_sessions = {}
    /\ ~registered

\* c is the menu line in lower case with its spaces replaced by underscores
IsCleanLine(c, line) ==
    /\ Len(c) = Len(line)
    /\ \A i \in 1 .. Len(line) :
          c[i] = IF line[i] = " " THEN "_"
                 ELSE IF line[i] \in DOMAIN LowerCase THEN LowerCase[line[i]]
                 ELSE line[i]

\* the suffix the naming scheme gives offset k
SuffixFor(k) ==
    CASE k = 0 -> <<"t", "o", "d", "a", "y">>
      [] k = 1 -> <<"t", "o", "m", "o", "r", "r", "o", "w">>
      [] OTHER -> <<"t", "o", "d", "a", "y", "_", "p", "l", "u", "s">> \o Str(k)

\* id is schoolcafe_<c>_<suffix> for the clean line c of the entity e
HasIdFormat(id, e) ==
    \E n \in 0 .. Len(id) :
        /\ n = Len(e.menu_line)
        /\ Len(id) = 11 + n + 1 + Len(SuffixFor(e.day_offset))
        /\ SubSeq(id, 1, 11) = <<"s", "c", "h", "o", "o", "l", "c", "a", "f", "e", "_">>
        /\ IsCleanLine(SubSeq(id, 12, 11 + n), e.menu_line)
        /\ id[12 + n] = "_"
        /\ SubSeq(id, 13 + n, Len(id)) = SuffixFor(e.day_offset)

\* C32: an entity's unique id is schoolcafe_<menu line in lower case, spaces
\* replaced by underscores>_<suffix>, the suffix being today for offset 0,
\* tomorrow for offset 1 and today_plus<k> from offset 2 on; and two entities
\* that differ in config entry, menu line or day offset have different
\* unique ids
C32_UniqueIdsDistinct ==
    hin.fn = "unique_id" /\ hout.done =>
        /\ \A i \in 1 .. 2 : HasIdFormat(hout.val[i], hin.arg[i])
        /\ hin.arg[1] # hin.arg[2] => hout.val[1] # hout.val[2]

====
